---- MODULE Spec2Model ----
(***************************************************************************)
(* Model of src/src/cleaning_pipeline.py: the airline-delay cleaning       *)
(* pipeline.  The script is one sequential run over a pandas DataFrame:    *)
(* load, normalise the column names, coerce types, derive KPIs, run the    *)
(* quality check, write three artifacts, print a summary, re-read the      *)
(* cleaned file and print a validation report.                             *)
(*                                                                         *)
(* Text is modelled as a sequence of one-character strings, so that the    *)
(* character-level code of to_snake is modelled as written.  Numbers are   *)
(* exact rationals [n, d] (d > 0, lowest terms); float rounding is not     *)
(* modelled.                                                               *)
(***************************************************************************)
EXTENDS Integers, Sequences, FiniteSets, TLC

VARIABLES
    raw,       \* the content of data/raw/airline_delay.csv as read on line 42
    pc,        \* position of the script: the stage that runs next
    df,        \* the DataFrame: a sequence of columns [name, dtype, vals]
    checks,    \* the dict `checks` of line 118
    files,     \* the three artifacts under data/processed
    console,   \* what the script has printed
    stages,    \* history: the stages that have run, in order
    exc,       \* the exception that ended the run, or "none"
    label,     \* to_snake harness: the raw label
    once,      \* to_snake harness: to_snake(label)
    twice,     \* to_snake harness: to_snake(to_snake(label))
    num,       \* safe_div harness: numerator sequence
    den,       \* safe_div harness: denominator sequence
    quot       \* safe_div harness: the result array

vars == <<raw, pc, df, checks, files, console, stages, exc,
          label, once, twice, num, den, quot>>

snakeVars == <<label, once, twice>>
divVars == <<num, den, quot>>

(***************************************************************************)
(* Bounds of the model.                                                    *)
(***************************************************************************)
MaxLabelLen == 4
MaxVecLen == 2
MaxVal == 2
MaxRows == 2
MaxMissing == 2
MaxEdits == 1

(***************************************************************************)
(* Characters.  str.isalnum, str.lower and the whitespace of str.strip /   *)
(* str.split, on the characters the model uses.                            *)
(***************************************************************************)
Lowers == {"a","b","c","d","e","f","g","h","i","j","k","l","m",
           "n","o","p","q","r","s","t","u","v","w","x","y","z"}
Uppers == {"A","B","C","D","E","F","G","H","I","J","K","L","M",
           "N","O","P","Q","R","S","T","U","V","W","X","Y","Z"}
Digits == {"0","1","2","3","4","5","6","7","8","9"}
Whitespace == {" ", "\t", "\n"}

IsAlnum(ch) == ch \in Lowers \cup Uppers \cup Digits

LowerOf ==
    [ch \in Uppers |->
        CASE ch = "A" -> "a" [] ch = "B" -> "b" [] ch = "C" -> "c"
          [] ch = "D" -> "d" [] ch = "E" -> "e" [] ch = "F" -> "f"
          [] ch = "G" -> "g" [] ch = "H" -> "h" [] ch = "I" -> "i"
          [] ch = "J" -> "j" [] ch = "K" -> "k" [] ch = "L" -> "l"
          [] ch = "M" -> "m" [] ch = "N" -> "n" [] ch = "O" -> "o"
          [] ch = "P" -> "p" [] ch = "Q" -> "q" [] ch = "R" -> "r"
          [] ch = "S" -> "s" [] ch = "T" -> "t" [] ch = "U" -> "u"
          [] ch = "V" -> "v" [] ch = "W" -> "w" [] ch = "X" -> "x"
          [] ch = "Y" -> "y" [] OTHER -> "z"]

Lower(ch) == IF ch \in Uppers THEN LowerOf[ch] ELSE ch

(***************************************************************************)
(* String helpers, each the Python str method of the same name.            *)
(***************************************************************************)
RECURSIVE LStrip(_)
LStrip(s) ==
    IF s # <<>> /\ Head(s) \in Whitespace THEN LStrip(Tail(s)) ELSE s

RECURSIVE RStrip(_)
RStrip(s) ==
    IF s # <<>> /\ s[Len(s)] \in Whitespace
    THEN RStrip(SubSeq(s, 1, Len(s) - 1)) ELSE s

Strip(s) == RStrip(LStrip(s))

\* s.replace(old, new) for a one-character old and new
ReplaceChar(s, old, new) ==
    [i \in 1..Len(s) |-> IF s[i] = old THEN new ELSE s[i]]

\* s.replace("__", "_"): one left-to-right pass over non-overlapping matches
RECURSIVE ReplaceDoubleUnderscore(_)
ReplaceDoubleUnderscore(s) ==
    IF Len(s) >= 2 /\ s[1] = "_" /\ s[2] = "_"
    THEN <<"_">> \o ReplaceDoubleUnderscore(SubSeq(s, 3, Len(s)))
    ELSE IF s = <<>> THEN <<>>
    ELSE <<Head(s)>> \o ReplaceDoubleUnderscore(Tail(s))

\* s.split(): the maximal runs of non-whitespace characters
RECURSIVE SplitFrom(_, _)
SplitFrom(s, cur) ==
    IF s = <<>> THEN (IF cur = <<>> THEN <<>> ELSE <<cur>>)
    ELSE IF Head(s) \in Whitespace
         THEN (IF cur = <<>> THEN <<>> ELSE <<cur>>) \o SplitFrom(Tail(s), <<>>)
         ELSE SplitFrom(Tail(s), Append(cur, Head(s)))

Split(s) == SplitFrom(s, <<>>)

\* sep.join(parts)
RECURSIVE Join(_, _)
Join(sep, parts) ==
    IF parts = <<>> THEN <<>>
    ELSE IF Len(parts) = 1 THEN parts[1]
    ELSE parts[1] \o sep \o Join(sep, Tail(parts))

(***************************************************************************)
(* to_snake, lines 25-30, statement by statement.                          *)
(***************************************************************************)
\* line 27
SnakeSeparators(s) ==
    ReplaceChar(ReplaceChar(ReplaceChar(Strip(s), "/", " "), "-", " "), ".", " ")

\* line 28
SnakeMask(s) ==
    [i \in 1..Len(s) |-> IF IsAlnum(s[i]) \/ s[i] = " " THEN s[i] ELSE "_"]

\* the argument of split() on line 29: s.replace("__","_").lower()
SnakeCollapse(s) ==
    LET r == ReplaceDoubleUnderscore(s) IN [i \in 1..Len(r) |-> Lower(r[i])]

\* line 29: empty parts are filtered out (split() yields none anyway)
SnakeParts(s) == SelectSeq(Split(SnakeCollapse(s)), LAMBDA p : p # <<>>)

to_snake(s) == Join(<<"_">>, SnakeParts(SnakeMask(SnakeSeparators(s))))

(***************************************************************************)
(* The string literals of the script.                                      *)
(***************************************************************************)
year == <<"y","e","a","r">>
month == <<"m","o","n","t","h">>
carrier_code == <<"c","a","r","r","i","e","r">>
arr_flights == <<"a","r","r","_","f","l","i","g","h","t","s">>
arr_del15 == <<"a","r","r","_","d","e","l","1","5">>
carrier_ct == <<"c","a","r","r","i","e","r","_","c","t">>
weather_ct == <<"w","e","a","t","h","e","r","_","c","t">>
nas_ct == <<"n","a","s","_","c","t">>
security_ct == <<"s","e","c","u","r","i","t","y","_","c","t">>
late_aircraft_ct ==
    <<"l","a","t","e","_","a","i","r","c","r","a","f","t","_","c","t">>
arr_cancelled == <<"a","r","r","_","c","a","n","c","e","l","l","e","d">>
arr_diverted == <<"a","r","r","_","d","i","v","e","r","t","e","d">>
arr_delay == <<"a","r","r","_","d","e","l","a","y">>
carrier_delay == <<"c","a","r","r","i","e","r","_","d","e","l","a","y">>
weather_delay == <<"w","e","a","t","h","e","r","_","d","e","l","a","y">>
nas_delay == <<"n","a","s","_","d","e","l","a","y">>
security_delay == <<"s","e","c","u","r","i","t","y","_","d","e","l","a","y">>
late_aircraft_delay ==
    <<"l","a","t","e","_","a","i","r","c","r","a","f","t","_","d","e",
      "l","a","y">>
year_month == <<"y","e","a","r","_","m","o","n","t","h">>
year_month_key == <<"y","e","a","r","_","m","o","n","t","h","_","k","e","y">>
delayed_rate == <<"d","e","l","a","y","e","d","_","r","a","t","e">>
cancellation_rate ==
    <<"c","a","n","c","e","l","l","a","t","i","o","n","_","r","a","t",
      "e">>
avg_delay_min_per_delayed_flight ==
    <<"a","v","g","_","d","e","l","a","y","_","m","i","n","_","p","e",
      "r","_","d","e","l","a","y","e","d","_","f","l","i","g","h","t">>
cause_counts_exceed_delayed_flag ==
    <<"c","a","u","s","e","_","c","o","u","n","t","s","_","e","x","c",
      "e","e","d","_","d","e","l","a","y","e","d","_","f","l","a","g">>
cause_carrier == <<"c","a","r","r","i","e","r">>
cause_weather == <<"w","e","a","t","h","e","r">>
cause_nas == <<"n","a","s">>
cause_security == <<"s","e","c","u","r","i","t","y">>
cause_late_aircraft == <<"l","a","t","e","_","a","i","r","c","r","a","f","t">>
suffix_ct == <<"_","c","t">>
suffix_delay == <<"_","d","e","l","a","y">>
suffix_cause_share_ct ==
    <<"_","c","a","u","s","e","_","s","h","a","r","e","_","c","t">>
suffix_cause_share_min ==
    <<"_","c","a","u","s","e","_","s","h","a","r","e","_","m","i","n">>

causes ==
    <<cause_carrier, cause_weather, cause_nas, cause_security,
      cause_late_aircraft>>

\* lines 55-58
count_cols ==
    <<arr_flights, arr_del15, carrier_ct, weather_ct, nas_ct,
      security_ct, late_aircraft_ct, arr_cancelled, arr_diverted>>

\* lines 59-62
delay_min_cols ==
    <<arr_delay, carrier_delay, weather_delay, nas_delay,
      security_delay, late_aircraft_delay>>

\* line 119
req ==
    <<carrier_ct, weather_ct, nas_ct, security_ct, late_aircraft_ct,
      arr_del15>>

\* line 121
cause_ct_cols ==
    <<carrier_ct, weather_ct, nas_ct, security_ct, late_aircraft_ct>>

\* line 177
kpi_cols == <<delayed_rate, cancellation_rate, avg_delay_min_per_delayed_flight>>

\* line 133: the sample size cap and the seed
SAMPLE_N == 500
RANDOM_STATE == 42

Range(s) == {s[i] : i \in 1..Len(s)}

(***************************************************************************)
(* Cell values.  A number is an exact rational; "text" is a string that    *)
(* does not parse as a number; "na" is the missing value (NaN, <NA>, NaT,  *)
(* None).                                                                  *)
(***************************************************************************)
RECURSIVE Gcd(_, _)
Gcd(a, b) == IF b = 0 THEN a ELSE Gcd(b, a % b)

Abs(x) == IF x < 0 THEN -x ELSE x

Rat(n, d) ==
    LET g == Gcd(Abs(n), Abs(d))
        s == IF d < 0 THEN -1 ELSE 1
    IN  [k |-> "num", n |-> (s * n) \div g, d |-> (s * d) \div g]

Num(n) == [k |-> "num", n |-> n, d |-> 1]
Text == [k |-> "text"]
NA == [k |-> "na"]
Bool(b) == [k |-> "bool", b |-> b]
Date(y, m) == [k |-> "date", y |-> y, m |-> m]
Str(s) == [k |-> "str", s |-> s]

IsNum(v) == v.k = "num"
IsNA(v) == v.k = "na"
IsIntegral(v) == v.k = "num" /\ v.d = 1

RatAdd(a, b) == Rat(a.n * b.d + b.n * a.d, a.d * b.d)
RatDiv(a, b) == Rat(a.n * b.d, a.d * b.n)
RatGt(a, b) == a.n * b.d > b.n * a.d

(***************************************************************************)
(* safe_div, lines 32-37: num / den elementwise over two float arrays,     *)
(* NaN where den == 0.  A NaN operand gives NaN (den == 0 is False for     *)
(* NaN and the quotient is NaN).                                           *)
(***************************************************************************)
\* mutant: a zero denominator gives zero, not the undefined marker
SafeDivAt_ZeroOnZeroDen(a, b) ==
    IF IsNum(b) /\ b.n = 0 THEN Num(0)
    ELSE IF IsNum(a) /\ IsNum(b) THEN RatDiv(a, b)
    ELSE NA

SafeDivAt(a, b) ==
    IF IsNum(b) /\ b.n = 0 THEN NA
    ELSE IF IsNum(a) /\ IsNum(b) THEN RatDiv(a, b)
    ELSE NA

safe_div(numv, denv) == [i \in 1..Len(numv) |-> SafeDivAt(numv[i], denv[i])]

(***************************************************************************)
(* DataFrame helpers.  A DataFrame is a sequence of columns                *)
(* [name, dtype, vals]; column labels may repeat, as pandas allows.        *)
(***************************************************************************)
Column(name, dtype, vals) == [name |-> name, dtype |-> dtype, vals |-> vals]

Names(d) == [i \in 1..Len(d) |-> d[i].name]

\* `c in df.columns`
Has(d, c) == \E i \in 1..Len(d) : d[i].name = c

\* `set(cs).issubset(df.columns)` / `all(c in df.columns for c in cs)`
HasAll(d, cs) == \A j \in 1..Len(cs) : Has(d, cs[j])

\* the label c is carried by more than one column: df[c] is a DataFrame
IsDuplicated(d, c) == Cardinality({i \in 1..Len(d) : d[i].name = c}) > 1

\* df[c] for a label carried by exactly one column
Col(d, c) == d[CHOOSE i \in 1..Len(d) : d[i].name = c]

\* `df[c] = vals`: replaces the column in place, or appends a new one
SetCol(d, c, dtype, vals) ==
    IF Has(d, c)
    THEN [i \in 1..Len(d) |->
            IF d[i].name = c THEN Column(c, dtype, vals) ELSE d[i]]
    ELSE Append(d, Column(c, dtype, vals))

\* len(df)
NRows(d) == IF d = <<>> THEN 0 ELSE Len(d[1].vals)

Min(a, b) == IF a <= b THEN a ELSE b

Ok(d) == [df |-> d, exc |-> "none"]
Raise(d, e) == [df |-> d, exc |-> e]

(***************************************************************************)
(* Stage 2, line 48: rename every column with to_snake.                    *)
(***************************************************************************)
RenameColumns(d) ==
    [i \in 1..Len(d) |-> Column(to_snake(d[i].name), d[i].dtype, d[i].vals)]

(***************************************************************************)
(* Stage 3, lines 64-73: type coercion.                                    *)
(***************************************************************************)
\* pd.to_numeric(..., errors="coerce") on one value
ToNumeric(v) == IF IsNum(v) THEN v ELSE NA

\* .fillna(0) on one value
FillNa0(v) == IF IsNA(v) THEN Num(0) ELSE v

\* the dtype to_numeric gives: int64 when every value is an integer
NumericDtype(vals) ==
    IF \A i \in 1..Len(vals) : IsIntegral(vals[i]) THEN "int64" ELSE "float64"

\* mutant: the fillna(0) is left out
CoerceCount_NoFill(vals) == [i \in 1..Len(vals) |-> ToNumeric(vals[i])]

\* line 68, right-hand side
CoerceCount(vals) == [i \in 1..Len(vals) |-> FillNa0(ToNumeric(vals[i]))]

\* lines 66-68; pd.to_numeric raises TypeError on a DataFrame (a duplicated label)
RECURSIVE CoerceCounts(_, _)
CoerceCounts(d, cols) ==
    IF cols = <<>> THEN Ok(d)
    ELSE LET c == Head(cols) IN
         IF ~Has(d, c) THEN CoerceCounts(d, Tail(cols))
         ELSE IF IsDuplicated(d, c) THEN Raise(d, "TypeError")
         ELSE LET v == CoerceCount(Col(d, c).vals)
              IN  CoerceCounts(SetCol(d, c, NumericDtype(v), v), Tail(cols))

\* line 73, right-hand side, before astype
CoerceYearMonth(vals) == [i \in 1..Len(vals) |-> ToNumeric(vals[i])]

\* .astype("Int64") raises TypeError on a float that is not a whole number
CanCastInt64(vals) == \A i \in 1..Len(vals) : IsNA(vals[i]) \/ IsIntegral(vals[i])

\* lines 71-73
RECURSIVE CoerceYearMonths(_, _)
CoerceYearMonths(d, cols) ==
    IF cols = <<>> THEN Ok(d)
    ELSE LET c == Head(cols) IN
         IF ~Has(d, c) THEN CoerceYearMonths(d, Tail(cols))
         ELSE IF IsDuplicated(d, c) THEN Raise(d, "TypeError")
         ELSE LET v == CoerceYearMonth(Col(d, c).vals) IN
              IF ~CanCastInt64(v) THEN Raise(d, "TypeError")
              ELSE CoerceYearMonths(SetCol(d, c, "Int64", v), Tail(cols))

CoerceTypes(d) ==
    LET r == CoerceCounts(d, count_cols \o delay_min_cols)
    IN  IF r.exc # "none" THEN r ELSE CoerceYearMonths(r.df, <<year, month>>)

(***************************************************************************)
(* Stage 4, lines 80-111: KPI derivation.                                  *)
(***************************************************************************)
\* Timestamp.min/max years and the calendar months: what pd.to_datetime parses
MIN_YEAR == 1678
MAX_YEAR == 2261

\* pd.to_datetime("<y>-<m>-01", errors="coerce")
ToDatetime(y, m) ==
    IF y.n \in MIN_YEAR..MAX_YEAR /\ m.n \in 1..12 THEN Date(y.n, m.n) ELSE NA

DigitChars == <<"0","1","2","3","4","5","6","7","8","9">>
DigitOf(n) == DigitChars[n + 1]

\* strftime("%Y-%m"): four-digit year, zero-padded month; NaT gives NaN
StrfYearMonth(v) ==
    IF IsNA(v) THEN NA
    ELSE Str(<<DigitOf(v.y \div 1000), DigitOf((v.y \div 100) % 10),
               DigitOf((v.y \div 10) % 10), DigitOf(v.y % 10), "-",
               DigitOf(v.m \div 10), DigitOf(v.m % 10)>>)

\* .astype("int") of a nullable Int64 column raises ValueError on <NA>
CanCastInt(vals) == \A i \in 1..Len(vals) : ~IsNA(vals[i])

\* lines 80-86
DeriveYearMonth(d) ==
    IF ~HasAll(d, <<year, month>>) THEN Ok(d)
    ELSE LET ys == Col(d, year).vals
             ms == Col(d, month).vals
         IN  IF ~CanCastInt(ys) \/ ~CanCastInt(ms) THEN Raise(d, "ValueError")
             ELSE LET dates == [i \in 1..Len(ys) |-> ToDatetime(ys[i], ms[i])]
                      keys == [i \in 1..Len(ys) |-> StrfYearMonth(dates[i])]
                      d1 == SetCol(d, year_month, "datetime64", dates)
                  IN  Ok(SetCol(d1, year_month_key, "object", keys))

\* lines 89-90
DeriveDelayedRate(d) ==
    IF HasAll(d, <<arr_del15, arr_flights>>)
    THEN SetCol(d, delayed_rate, "float64",
                safe_div(Col(d, arr_del15).vals, Col(d, arr_flights).vals))
    ELSE d

\* mutant: the denominator is arr_flights alone
TotalHandled_FlightsOnly(d) ==
    [i \in 1..NRows(d) |-> Col(d, arr_flights).vals[i]]

\* line 94
TotalHandled(d) ==
    [i \in 1..NRows(d) |->
        RatAdd(RatAdd(Col(d, arr_flights).vals[i], Col(d, arr_cancelled).vals[i]),
               Col(d, arr_diverted).vals[i])]

\* lines 93-95
DeriveCancellationRate(d) ==
    IF HasAll(d, <<arr_flights, arr_cancelled, arr_diverted>>)
    THEN SetCol(d, cancellation_rate, "float64",
                safe_div(Col(d, arr_cancelled).vals, TotalHandled(d)))
    ELSE d

\* lines 98-99
DeriveAvgDelay(d) ==
    IF HasAll(d, <<arr_delay, arr_del15>>)
    THEN SetCol(d, avg_delay_min_per_delayed_flight, "float64",
                safe_div(Col(d, arr_delay).vals, Col(d, arr_del15).vals))
    ELSE d

\* lines 103-105, one cause
DeriveShareCt(d, cause) ==
    LET ct == cause \o suffix_ct IN
    IF HasAll(d, <<arr_del15, ct>>)
    THEN SetCol(d, cause \o suffix_cause_share_ct, "float64",
                safe_div(Col(d, ct).vals, Col(d, arr_del15).vals))
    ELSE d

\* lines 109-111, one cause
DeriveShareMin(d, cause) ==
    LET dmin == cause \o suffix_delay IN
    IF HasAll(d, <<arr_delay, dmin>>)
    THEN SetCol(d, cause \o suffix_cause_share_min, "float64",
                safe_div(Col(d, dmin).vals, Col(d, arr_delay).vals))
    ELSE d

\* line 102: the loop over the causes
RECURSIVE DeriveSharesCt(_, _)
DeriveSharesCt(d, cs) ==
    IF cs = <<>> THEN d ELSE DeriveSharesCt(DeriveShareCt(d, Head(cs)), Tail(cs))

\* line 108: the loop over the causes
RECURSIVE DeriveSharesMin(_, _)
DeriveSharesMin(d, cs) ==
    IF cs = <<>> THEN d ELSE DeriveSharesMin(DeriveShareMin(d, Head(cs)), Tail(cs))

\* lines 89-111: the rules after the composite date, in the script's order
DeriveRates(d) ==
    DeriveSharesMin(
        DeriveSharesCt(
            DeriveAvgDelay(DeriveCancellationRate(DeriveDelayedRate(d))),
            causes),
        causes)

DeriveKpis(d) ==
    LET r == DeriveYearMonth(d)
    IN  IF r.exc # "none" THEN r ELSE Ok(DeriveRates(r.df))

(***************************************************************************)
(* Stage 5, lines 118-123: the quality check.                              *)
(***************************************************************************)
RECURSIVE SumCols(_, _, _)
SumCols(d, cols, i) ==
    IF cols = <<>> THEN Num(0)
    ELSE RatAdd(Col(d, Head(cols)).vals[i], SumCols(d, Tail(cols), i))

\* line 121
CauseSum(d) == [i \in 1..NRows(d) |-> SumCols(d, cause_ct_cols, i)]

\* mutant: the comparison is >= in place of >
ExceedFlags_AtLeast(d) ==
    LET s == CauseSum(d)
    IN  [i \in 1..NRows(d) |-> Bool(~RatGt(Col(d, arr_del15).vals[i], s[i]))]

\* line 122, right-hand side
ExceedFlags(d) ==
    LET s == CauseSum(d)
    IN  [i \in 1..NRows(d) |-> Bool(RatGt(s[i], Col(d, arr_del15).vals[i]))]

\* int(flag.sum())
CountTrue(flags) == Cardinality({i \in 1..Len(flags) : flags[i].b})

NoChecks == [present |-> FALSE, rows_where_cause_counts_exceed_delayed |-> 0]

QualityCheck(d) ==
    IF HasAll(d, req)
    THEN LET f == ExceedFlags(d)
         IN  [df |-> SetCol(d, cause_counts_exceed_delayed_flag, "bool", f),
              checks |-> [present |-> TRUE,
                          rows_where_cause_counts_exceed_delayed |-> CountTrue(f)]]
    ELSE [df |-> d, checks |-> NoChecks]

(***************************************************************************)
(* Stage 6, lines 130-142: the three artifacts.                            *)
(***************************************************************************)
NoFile == [written |-> FALSE]

\* line 130: every column, every row, in the table's column order
CleanFile(d) == [written |-> TRUE, table |-> d]

\* line 133: min(len(df), 500) rows of the table, drawn with the fixed seed
SampleFile(d) ==
    [written |-> TRUE, columns |-> Names(d), n |-> Min(NRows(d), SAMPLE_N),
     random_state |-> RANDOM_STATE, population |-> d]

\* line 139: round(<fraction of nulls> * 100, 2), kept as a rational
NullPct(vals) ==
    LET k == Cardinality({i \in 1..Len(vals) : IsNA(vals[i])})
        n == Len(vals)
    IN  Rat((20000 * k + n) \div (2 * n), 100)

\* line 140: the first non-null value, else None
Example(vals) ==
    IF \E i \in 1..Len(vals) : ~IsNA(vals[i])
    THEN vals[CHOOSE i \in 1..Len(vals) :
                 /\ ~IsNA(vals[i])
                 /\ \A j \in 1..(i - 1) : IsNA(vals[j])]
    ELSE NA

DictRecord(c) ==
    [column |-> c.name, dtype |-> c.dtype, null_pct |-> NullPct(c.vals),
     example |-> Example(c.vals)]

\* code-point order of the characters a normalised name can hold
CharOrder ==
    <<"0","1","2","3","4","5","6","7","8","9","_",
      "a","b","c","d","e","f","g","h","i","j","k","l","m",
      "n","o","p","q","r","s","t","u","v","w","x","y","z">>

Ord(ch) == CHOOSE i \in 1..Len(CharOrder) : CharOrder[i] = ch

\* a < b for two strings
RECURSIVE StrLess(_, _)
StrLess(a, b) ==
    IF b = <<>> THEN FALSE
    ELSE IF a = <<>> THEN TRUE
    ELSE IF Head(a) = Head(b) THEN StrLess(Tail(a), Tail(b))
    ELSE Ord(Head(a)) < Ord(Head(b))

\* line 141: sort_values("column")
RECURSIVE SortByColumn(_)
SortByColumn(recs) ==
    IF recs = <<>> THEN <<>>
    ELSE LET m == CHOOSE i \in 1..Len(recs) :
                      \A j \in 1..Len(recs) :
                          j = i \/ StrLess(recs[i].column, recs[j].column)
                             \/ (recs[i].column = recs[j].column /\ i < j)
         IN  <<recs[m]>> \o
             SortByColumn([j \in 1..(Len(recs) - 1) |->
                              IF j < m THEN recs[j] ELSE recs[j + 1]])

\* mutant: the dictionary leaves out the table's last column
DataDictionary_SkipLast(d) ==
    IF \E i \in 1..Len(d) : IsDuplicated(d, d[i].name)
    THEN [exc |-> "AttributeError", file |-> NoFile]
    ELSE [exc |-> "none",
          file |-> [written |-> TRUE,
                    records |-> SortByColumn([i \in 1..(Len(d) - 1) |->
                                                 DictRecord(d[i])])]]

\* lines 136-142; df[c].dtype raises AttributeError when the label c is duplicated
DataDictionary(d) ==
    IF \E i \in 1..Len(d) : IsDuplicated(d, d[i].name)
    THEN [exc |-> "AttributeError", file |-> NoFile]
    ELSE [exc |-> "none",
          file |-> [written |-> TRUE,
                    records |-> SortByColumn([i \in 1..Len(d) |-> DictRecord(d[i])])]]

(***************************************************************************)
(* Stage 8, lines 160-178: read the cleaned file back and report.          *)
(***************************************************************************)
\* a date as to_csv writes it
StrfDate(v) == Str(StrfYearMonth(v).s \o <<"-","0","1">>)

AllNA(vals) == \A i \in 1..Len(vals) : IsNA(vals[i])
AnyNA(vals) == \E i \in 1..Len(vals) : IsNA(vals[i])

\* one column of the file as pd.read_csv infers it
ReadColumn(c) ==
    IF AllNA(c.vals) THEN Column(c.name, "float64", c.vals)
    ELSE IF c.dtype = "datetime64"
    THEN Column(c.name, "object",
                [i \in 1..Len(c.vals) |->
                    IF IsNA(c.vals[i]) THEN NA ELSE StrfDate(c.vals[i])])
    ELSE IF c.dtype = "Int64"
    THEN Column(c.name, IF AnyNA(c.vals) THEN "float64" ELSE "int64", c.vals)
    ELSE c

\* line 160
ReadCsv(f) == [i \in 1..Len(f.table) |-> ReadColumn(f.table[i])]

\* the labels of the numeric columns, in column order (what describe() covers)
NumericNames(d) ==
    Names(SelectSeq(d, LAMBDA c : c.dtype \in {"int64", "float64"}))

FirstN(s, n) == SubSeq(s, 1, Min(Len(s), n))

\* lines 163-174: the sections printed before the KPI section; the preview and
\* the statistics are named by the columns they cover, their figures left out
OverviewReport(d) ==
    << <<"shape", NRows(d), Len(d)>>,
       <<"head", Min(NRows(d), 5)>>,
       <<"missing">>,
       <<"dtypes", [i \in 1..Min(Len(d), 10) |-> d[i].dtype]>>,
       <<"describe", FirstN(NumericNames(d), 10)>> >>

\* line 178: df[kpi_cols] raises KeyError when a KPI column is not in the file
KpiReport(d) ==
    IF HasAll(d, kpi_cols)
    THEN [exc |-> "none", out |-> << <<"kpi", kpi_cols>> >>]
    ELSE [exc |-> "KeyError", out |-> <<>>]

\* lines 147-154
SummaryReport(d, chk) ==
    << <<"completed">>, <<"rows", NRows(d), Len(d)>>, <<"saved">>,
       <<"path", "clean">>, <<"path", "sample">>, <<"path", "dict">> >>
    \o (IF chk.present
        THEN << <<"checks", chk.rows_where_cause_counts_exceed_delayed>> >>
        ELSE <<>>)

(***************************************************************************)
(* Stage 1, line 42: the raw table pd.read_csv loads.  The inputs are the  *)
(* monthly airline-delay table: its columns, three example rows, and       *)
(* bounded departures from them (columns left out, cells overridden,       *)
(* headers spelled differently, extra columns).                            *)
(***************************************************************************)
BaseColumns ==
    <<year, month, carrier_code, arr_flights, arr_del15, carrier_ct,
      weather_ct, nas_ct, security_ct, late_aircraft_ct, arr_cancelled,
      arr_diverted, arr_delay, carrier_delay, weather_delay, nas_delay,
      security_delay, late_aircraft_delay>>

NBase == Len(BaseColumns)

\* rows aligned with BaseColumns: a consistent month, an empty month, and a
\* month whose cause counts (fractional, as in the source data) exceed arr_del15
ExampleRows ==
    << <<Num(2023), Num(1), Text, Num(100), Num(20), Num(10), Num(5), Num(3),
         Num(0), Num(2), Num(5), Num(0), Num(500), Num(200), Num(100),
         Num(100), Num(0), Num(100)>>,
       <<Num(2023), Num(2), Text, Num(0), Num(0), Num(0), Num(0), Num(0),
         Num(0), Num(0), Num(0), Num(0), Num(0), Num(0), Num(0),
         Num(0), Num(0), Num(0)>>,
       <<Num(2023), Num(3), Text, Num(10), Num(2), Rat(3, 2), Num(1), Num(0),
         Num(0), Num(0), Num(0), Num(1), Num(60), Num(45), Num(15),
         Num(0), Num(0), Num(0)>> >>

ExampleRow(i) == ExampleRows[((i - 1) % Len(ExampleRows)) + 1]

\* the values one cell of column j may be overridden with
EditValues(j) ==
    IF BaseColumns[j] = year THEN {Num(2024), Rat(4047, 2), Text, NA}
    ELSE IF BaseColumns[j] = month THEN {Num(12), Rat(3, 2), Text, NA}
    ELSE IF BaseColumns[j] = carrier_code THEN {Text, NA}
    ELSE {Num(0), Num(1), Rat(1, 2), Text, NA}

RECURSIVE SubsetsUpTo(_, _)
SubsetsUpTo(S, k) ==
    IF k = 0 THEN {{}}
    ELSE LET smaller == SubsetsUpTo(S, k - 1)
         IN  smaller \cup {s \cup {x} : s \in smaller, x \in S}

\* the overrides of the last row: a partial map from column index to value
Edits ==
    UNION {{e \in [cs -> UNION {EditValues(j) : j \in cs}] :
               \A j \in cs : e[j] \in EditValues(j)} :
           cs \in SubsetsUpTo(1..NBase, MaxEdits)}

\* the columns a schema may lack: every one but the carrier code
Droppable == {j \in 1..NBase : BaseColumns[j] # carrier_code}

\* header spellings: the separator in place of "_", capitalised words, padding
Styles ==
    {[sep |-> "_", title |-> FALSE, pad |-> FALSE],
     [sep |-> "-", title |-> TRUE, pad |-> FALSE],
     [sep |-> " ", title |-> FALSE, pad |-> TRUE],
     [sep |-> ".", title |-> TRUE, pad |-> FALSE]}

PlainStyle == [sep |-> "_", title |-> FALSE, pad |-> FALSE]

Upper(ch) ==
    IF ch \in Lowers THEN CHOOSE u \in Uppers : LowerOf[u] = ch ELSE ch

RawLabel(name, style) ==
    LET body == [i \in 1..Len(name) |->
                    IF name[i] = "_" THEN style.sep
                    ELSE IF style.title /\ (i = 1 \/ name[i - 1] = "_")
                    THEN Upper(name[i])
                    ELSE name[i]]
    IN  IF style.pad THEN <<" ">> \o body \o <<"\t">> ELSE body

\* further raw columns a file may carry, spelled unlike the base header
RawExtras ==
    {<<"A","r","r","-","F","l","i","g","h","t","s">>,
     <<"a","r","r"," ","f","l","i","g","h","t","s">>,
     <<"C","A","R","R","I","E","R">>,
     <<"A","i","r","p","o","r","t",".","N","a","m","e">>}

\* the dtype pd.read_csv infers for a column
InferDtype(vals) ==
    IF \E i \in 1..Len(vals) : vals[i].k = "text" THEN "object"
    ELSE IF \A i \in 1..Len(vals) : IsIntegral(vals[i]) THEN "int64"
    ELSE "float64"

RawCell(i, j, n, edit) ==
    IF i = n /\ j \in DOMAIN edit THEN edit[j] ELSE ExampleRow(i)[j]

RawColumn(label_, vals) == Column(label_, InferDtype(vals), vals)

SetToSeq(S) ==
    LET RECURSIVE Build(_)
        Build(T) == IF T = {} THEN <<>>
                    ELSE LET x == CHOOSE y \in T : TRUE
                         IN  <<x>> \o Build(T \ {x})
    IN  Build(S)

RawTable(n, missing, edit, style, extras) ==
    LET kept == SelectSeq([j \in 1..NBase |-> j], LAMBDA j : j \notin missing)
        base == [q \in 1..Len(kept) |->
                    RawColumn(RawLabel(BaseColumns[kept[q]], style),
                              [i \in 1..n |-> RawCell(i, kept[q], n, edit)])]
        more == SetToSeq(extras)
    IN  base \o [q \in 1..Len(more) |-> RawColumn(more[q], [i \in 1..n |-> Text])]

\* raw labels are pairwise distinct (read_csv renames repeated headers)
DistinctLabels(d) ==
    \A i, j \in 1..Len(d) : i # j => d[i].name # d[j].name

NoFiles == [clean |-> NoFile, sample |-> NoFile, dict |-> NoFile]

SnakeIdle == label = <<>> /\ once = <<>> /\ twice = <<>>
DivIdle == num = <<>> /\ den = <<>> /\ quot = <<>>

\* one departure from the full, plainly spelled table at a time: columns left
\* out, cells of the last row of a MaxRows-row table overridden, or the header
\* spelled differently with extra columns
Inputs ==
    {RawTable(n, missing, <<>>, PlainStyle, {}) :
        n \in 1..MaxRows, missing \in SubsetsUpTo(Droppable, MaxMissing)}
    \cup {RawTable(MaxRows, {}, edit, PlainStyle, {}) : edit \in Edits}
    \cup {RawTable(n, {}, <<>>, style, extras) :
            n \in 1..MaxRows, style \in Styles, extras \in SUBSET RawExtras}

Init ==
    /\ raw \in {d \in Inputs : DistinctLabels(d)}
    /\ df = raw
    /\ pc = "normalize"
    /\ checks = NoChecks
    /\ files = NoFiles
    /\ console = <<>>
    /\ stages = <<>>
    /\ exc = "none"
    /\ SnakeIdle
    /\ DivIdle

(***************************************************************************)
(* The stages of the script, one action each.  An exception ends the run   *)
(* where it is raised: what the stage had already assigned stays.          *)
(***************************************************************************)
Goto(stage, next, e) ==
    /\ stages' = Append(stages, stage)
    /\ exc' = e
    /\ pc' = IF e = "none" THEN next ELSE "failed"

Normalize ==
    /\ pc = "normalize"
    /\ df' = RenameColumns(df)
    /\ Goto("normalize", "coerce", "none")
    /\ UNCHANGED <<checks, files, console, raw, snakeVars, divVars>>

Coerce ==
    /\ pc = "coerce"
    /\ LET r == CoerceTypes(df)
       IN  df' = r.df /\ Goto("coerce", "derive", r.exc)
    /\ UNCHANGED <<checks, files, console, raw, snakeVars, divVars>>

Derive ==
    /\ pc = "derive"
    /\ LET r == DeriveKpis(df)
       IN  df' = r.df /\ Goto("derive", "quality", r.exc)
    /\ UNCHANGED <<checks, files, console, raw, snakeVars, divVars>>

Quality ==
    /\ pc = "quality"
    /\ LET r == QualityCheck(df)
       IN  df' = r.df /\ checks' = r.checks
    /\ Goto("quality", "write_clean", "none")
    /\ UNCHANGED <<files, console, raw, snakeVars, divVars>>

WriteClean ==
    /\ pc = "write_clean"
    /\ files' = [files EXCEPT !.clean = CleanFile(df)]
    /\ Goto("write_clean", "write_sample", "none")
    /\ UNCHANGED <<df, checks, console, raw, snakeVars, divVars>>

WriteSample ==
    /\ pc = "write_sample"
    /\ files' = [files EXCEPT !.sample = SampleFile(df)]
    /\ Goto("write_sample", "write_dict", "none")
    /\ UNCHANGED <<df, checks, console, raw, snakeVars, divVars>>

WriteDict ==
    /\ pc = "write_dict"
    /\ LET r == DataDictionary(df)
       IN  /\ files' = [files EXCEPT !.dict = r.file]
           /\ Goto("write_dict", "summary", r.exc)
    /\ UNCHANGED <<df, checks, console, raw, snakeVars, divVars>>

Summary ==
    /\ pc = "summary"
    /\ console' = console \o SummaryReport(df, checks)
    /\ Goto("summary", "validate", "none")
    /\ UNCHANGED <<df, checks, files, raw, snakeVars, divVars>>

Validate ==
    /\ pc = "validate"
    /\ LET d == ReadCsv(files.clean)
           r == KpiReport(d)
       IN  /\ df' = d
           /\ console' = console \o OverviewReport(d) \o r.out
           /\ Goto("validate", "done", r.exc)
    /\ UNCHANGED <<checks, files, raw, snakeVars, divVars>>

Next ==
    \/ Normalize
    \/ Coerce
    \/ Derive
    \/ Quality
    \/ WriteClean
    \/ WriteSample
    \/ WriteDict
    \/ Summary
    \/ Validate

Spec == Init /\ [][Next]_vars

(***************************************************************************)
(* to_snake as a pure function: a raw label over an alphabet holding one   *)
(* character of each class the code distinguishes, normalised once and     *)
(* then once more.                                                         *)
(***************************************************************************)
Alphabet == {"a", "B", " ", "\t", "_", "-", "$"}

RECURSIVE LabelsUpTo(_)
LabelsUpTo(n) ==
    IF n = 0 THEN {<<>>}
    ELSE LET shorter == LabelsUpTo(n - 1)
         IN  shorter \cup {Append(s, ch) : s \in shorter, ch \in Alphabet}

InitSnake ==
    /\ label \in LabelsUpTo(MaxLabelLen)
    /\ once = <<>>
    /\ twice = <<>>
    /\ pc = "snake"
    /\ raw = <<>> /\ df = <<>> /\ checks = NoChecks /\ files = NoFiles
    /\ console = <<>> /\ stages = <<>> /\ exc = "none"
    /\ DivIdle

SnakeOnce ==
    /\ pc = "snake"
    /\ once' = to_snake(label)
    /\ pc' = "snake_again"
    /\ UNCHANGED <<df, checks, files, console, stages, exc, label, twice, raw, divVars>>

SnakeTwice ==
    /\ pc = "snake_again"
    /\ twice' = to_snake(once)
    /\ pc' = "snake_done"
    /\ UNCHANGED <<df, checks, files, console, stages, exc, label, once, raw, divVars>>

NextSnake == SnakeOnce \/ SnakeTwice

SpecSnake == InitSnake /\ [][NextSnake]_vars

(***************************************************************************)
(* safe_div as a pure function: two equal-length arrays of small numbers.  *)
(***************************************************************************)
DivValues == {Num(v) : v \in (-MaxVal)..MaxVal} \cup {Rat(1, 2)}

Vectors(n) == [1..n -> DivValues]

InitDiv ==
    /\ \E n \in 1..MaxVecLen : num \in Vectors(n) /\ den \in Vectors(n)
    /\ quot = <<>>
    /\ pc = "div"
    /\ raw = <<>> /\ df = <<>> /\ checks = NoChecks /\ files = NoFiles
    /\ console = <<>> /\ stages = <<>> /\ exc = "none"
    /\ SnakeIdle

Divide ==
    /\ pc = "div"
    /\ quot' = safe_div(num, den)
    /\ pc' = "div_done"
    /\ UNCHANGED <<df, checks, files, console, stages, exc, raw, snakeVars, num, den>>

NextDiv == Divide

SpecDiv == InitDiv /\ [][NextDiv]_vars

(***************************************************************************)
(* Properties.                                                             *)
(***************************************************************************)
StageRan(s) == \E i \in 1..Len(stages) : stages[i] = s

LastStage == IF stages = <<>> THEN "load" ELSE stages[Len(stages)]

Val(d, c, i) == Col(d, c).vals[i]

\* a / b = q, by cross-multiplication
IsQuotient(q, a, b) == IsNum(q) /\ q.n * b.n * a.d = a.n * b.d * q.d

\* C1: to_snake is idempotent: normalising a normalised label returns it
\* unchanged, for every raw label.
C1_Idempotent == pc = "snake_done" => twice = once

\* C2: when year and month are both present and a row's year or month is
\* unparseable or missing, the coerced value is missing, that row's year_month
\* and year_month_key are undefined, and the run goes on without raising.
C2_UndefinedDateNoRaise ==
    (StageRan("derive") /\ HasAll(df, <<year, month>>))
    => \A i \in 1..NRows(df) :
          (IsNA(Val(df, year, i)) \/ IsNA(Val(df, month, i)))
          => /\ exc = "none"
             /\ HasAll(df, <<year_month, year_month_key>>)
             /\ IsNA(Val(df, year_month, i))
             /\ IsNA(Val(df, year_month_key, i))

\* the source columns of the derivation rules
KpiSources == Range(<<year, month>> \o count_cols \o delay_min_cols)

\* C3: when a source column of a derived KPI is absent from the schema, no
\* stage raises: the run completes every stage, the validation report included.
C3_MissingSourceNeverRaises ==
    (StageRan("normalize") /\ \E c \in KpiSources : ~Has(df, c)) => exc = "none"

\* C4: after the NameNormalizer pass the column names are pairwise distinct and
\* each is in canonical snake-case form, for every header of distinct raw labels.
C4_UniqueCanonicalNames ==
    StageRan("normalize")
    => /\ DistinctLabels(df)
       /\ \A i \in 1..Len(df) : to_snake(df[i].name) = df[i].name

\* C5: safe_div is elementwise: the result has the operands' length, is the
\* undefined marker wherever the denominator is zero (also when the numerator
\* is zero) and is num[i] / den[i] wherever it is not.
C5_SafeDivElementwise ==
    pc = "div_done"
    => /\ Len(quot) = Len(num)
       /\ \A i \in 1..Len(num) :
             /\ den[i].n = 0 => quot[i] = NA
             /\ den[i].n # 0 => IsQuotient(quot[i], num[i], den[i])

C5_Witness ==
    /\ pc = "div_done"
    /\ \E i, j \in 1..Len(num) :
          /\ num[i].n = 0 /\ den[i].n = 0 /\ quot[i] = NA
          /\ num[j] = Num(1) /\ den[j] = Num(2) /\ quot[j] = Rat(1, 2)

\* the sum of the five coerced cause counts of row i
CauseCountSum(d, i) ==
    RatAdd(RatAdd(RatAdd(RatAdd(Val(d, carrier_ct, i), Val(d, weather_ct, i)),
                         Val(d, nas_ct, i)),
                  Val(d, security_ct, i)),
           Val(d, late_aircraft_ct, i))

Exceeds(d, i) ==
    LET s == CauseCountSum(d, i)
        b == Val(d, arr_del15, i)
    IN  s.n * b.d > b.n * s.d

\* C6: when the five cause counts and arr_del15 are present, the flag is true
\* on exactly the rows whose cause-count sum is strictly greater than
\* arr_del15, the reported count is the number of those rows, and the quality
\* stage hands over to the write stage whatever the count.
C6_QualityCount ==
    /\ (checks.present \/ Has(df, cause_counts_exceed_delayed_flag))
       => /\ HasAll(df, req)
          /\ checks.present
          /\ Has(df, cause_counts_exceed_delayed_flag)
          /\ \A i \in 1..NRows(df) :
                Val(df, cause_counts_exceed_delayed_flag, i) = Bool(Exceeds(df, i))
          /\ checks.rows_where_cause_counts_exceed_delayed
                = Cardinality({i \in 1..NRows(df) : Exceeds(df, i)})
    /\ (StageRan("quality") /\ HasAll(df, req)) => checks.present
    /\ LastStage = "quality" => (pc = "write_clean" /\ exc = "none")

C6_Witness ==
    /\ pc = "write_clean"
    /\ HasAll(df, req)
    /\ checks.rows_where_cause_counts_exceed_delayed = 1
    /\ \E i, j \in 1..NRows(df) :
          /\ Exceeds(df, i)
          /\ CauseCountSum(df, j) = Val(df, arr_del15, j)
          /\ Val(df, arr_del15, j).n > 0
          /\ Val(df, cause_counts_exceed_delayed_flag, j) = Bool(FALSE)

\* the derivation rules: the derived column and its source columns
ShareCtRules ==
    {[col |-> causes[q] \o suffix_cause_share_ct,
      src |-> {arr_del15, causes[q] \o suffix_ct}] : q \in 1..Len(causes)}

ShareMinRules ==
    {[col |-> causes[q] \o suffix_cause_share_min,
      src |-> {arr_delay, causes[q] \o suffix_delay}] : q \in 1..Len(causes)}

Rules ==
    {[col |-> year_month, src |-> {year, month}],
     [col |-> year_month_key, src |-> {year, month}],
     [col |-> delayed_rate, src |-> {arr_del15, arr_flights}],
     [col |-> cancellation_rate, src |-> {arr_flights, arr_cancelled, arr_diverted}],
     [col |-> avg_delay_min_per_delayed_flight, src |-> {arr_delay, arr_del15}]}
    \cup ShareCtRules \cup ShareMinRules

\* C7: once the KpiDeriver has run, each derived column is in the table if and
\* only if all of its rule's source columns are, whatever the other rules'
\* sources.
C7_ConditionalSchema ==
    StageRan("derive")
    => \A r \in Rules : Has(df, r.col) <=> \A c \in r.src : Has(df, c)

\* C8: for every row, cancellation_rate is arr_cancelled over the sum of the
\* three coerced counts arr_flights, arr_cancelled and arr_diverted, and is
\* undefined exactly when that sum is zero.
C8_CancellationRate ==
    Has(df, cancellation_rate)
    => /\ HasAll(df, <<arr_flights, arr_cancelled, arr_diverted>>)
       /\ \A i \in 1..NRows(df) :
             LET total == RatAdd(RatAdd(Val(df, arr_flights, i),
                                        Val(df, arr_cancelled, i)),
                                 Val(df, arr_diverted, i))
                 rate == Val(df, cancellation_rate, i)
             IN  /\ total.n = 0 <=> rate = NA
                 /\ total.n # 0 => IsQuotient(rate, Val(df, arr_cancelled, i), total)

C8_Witness ==
    /\ pc = "quality"
    /\ HasAll(df, <<arr_flights, arr_cancelled, arr_diverted, cancellation_rate>>)
    /\ \E i, j \in 1..NRows(df) :
          /\ Val(df, arr_flights, i) = Num(100)
          /\ Val(df, arr_cancelled, i) = Num(5)
          /\ Val(df, arr_diverted, i) = Num(0)
          /\ Val(df, cancellation_rate, i) = Rat(5, 105)
          /\ Val(df, arr_flights, j) = Num(0)
          /\ Val(df, arr_cancelled, j) = Num(1)
          /\ Val(df, cancellation_rate, j) = Num(1)

Designated == Range(count_cols \o delay_min_cols)

\* no number with a fractional part in a year or month column of the table
WholeYearMonths(d) ==
    \A i \in 1..Len(d) :
        d[i].name \in {year, month}
        => \A r \in 1..Len(d[i].vals) : ~IsNum(d[i].vals[r]) \/ IsIntegral(d[i].vals[r])

\* C9: after the TypeCoercer pass, when the KPI rules and the quality check
\* read the table, every value of a designated count or delay column is a
\* number: zero where the raw entry was unparseable or missing, the raw number
\* otherwise; the other columns (year and month aside) are as loaded; an absent
\* designated column raises nothing.
C9_CoercedCounts ==
    /\ pc \in {"derive", "quality"}
       => \A i \in 1..Len(raw) :
             /\ df[i].name = to_snake(raw[i].name)
             /\ df[i].name \in Designated
                => \A r \in 1..NRows(raw) :
                      /\ IsNum(df[i].vals[r])
                      /\ df[i].vals[r] =
                            IF IsNum(raw[i].vals[r]) THEN raw[i].vals[r] ELSE Num(0)
             /\ df[i].name \notin Designated \cup {year, month}
                => df[i].vals = raw[i].vals /\ df[i].dtype = raw[i].dtype
    /\ (LastStage = "coerce" /\ exc # "none")
       => ~DistinctLabels(df) \/ ~WholeYearMonths(df)

C9_Witness ==
    /\ pc = "derive"
    /\ \E i \in 1..Len(raw) :
          /\ df[i].name \in Designated
          /\ \E r, s \in 1..NRows(raw) :
                /\ raw[i].vals[r] = Text /\ df[i].vals[r] = Num(0)
                /\ IsNum(raw[i].vals[s]) /\ raw[i].vals[s].n # 0
                /\ df[i].vals[s] = raw[i].vals[s]

StageOrder ==
    <<"normalize", "coerce", "derive", "quality", "write_clean",
      "write_sample", "write_dict", "summary", "validate">>

\* the dictionary holds exactly one record per column of the table t
OneRecordPerColumn(recs, t) ==
    /\ Len(recs) = Len(t)
    /\ \A i \in 1..Len(t) :
          \E j \in 1..Len(recs) :
             /\ recs[j].column = t[i].name
             /\ recs[j].dtype = t[i].dtype
             /\ IsNA(recs[j].example) <=> AllNA(t[i].vals)
             /\ \A q \in 1..Len(recs) : recs[q].column = t[i].name => q = j

C10_Artifacts ==
    /\ Len(stages) <= Len(StageOrder)
    /\ \A i \in 1..Len(stages) : stages[i] = StageOrder[i]
    /\ files.clean.written <=> StageRan("write_clean")
    /\ files.sample.written
       => /\ files.clean.written
          /\ files.sample.population = files.clean.table
          /\ files.sample.columns = Names(files.clean.table)
    /\ files.dict.written
       => /\ files.sample.written
          /\ OneRecordPerColumn(files.dict.records, files.clean.table)
          /\ checks.present
             => \E j \in 1..Len(files.dict.records) :
                   files.dict.records[j].column = cause_counts_exceed_delayed_flag
    /\ StageRan("validate") => files.clean.written

\* C10: the stages run in the order normalize, coerce, derive KPIs, quality
\* check, write; the table does not change from the first write to the last, so
\* the cleaned file, the sample and the dictionary describe one table state (the
\* dictionary with one record per column of the cleaned file, the quality flag
\* included); the validation report runs after the cleaned file is written and
\* writes no artifact.
C10_StageOrderAndFrame ==
    /\ []C10_Artifacts
    /\ [][/\ pc \in {"write_clean", "write_sample", "write_dict"} => df' = df
          /\ pc = "validate" => files' = files]_vars

C10_Witness ==
    /\ pc = "done"
    /\ checks.present
    /\ files.dict.written
    /\ Len(files.dict.records) > NBase

====
